---- MODULE Spec2Model ----
(***************************************************************************)
(* Model of the serial line reader and command parser of the LED matrix   *)
(* controller (arduino_src/led_matrix_controller/comms.h, comms.cpp).     *)
(*                                                                         *)
(* A String is a sequence of one-character strings.  An unsigned long is  *)
(* a pair <<hi, lo>> of 16-bit halves, so that millis() arithmetic keeps  *)
(* its 32-bit width.                                                       *)
(***************************************************************************)
EXTENDS Integers, Sequences, FiniteSets, TLC

(***************************************************************************)
(* Bounds of the model.                                                    *)
(***************************************************************************)
\* Bytes the transport delivers in one behaviour of Spec.
MaxBytes == 3
\* Capacity of the serial receive buffer (bytes waiting to be read).
MaxSerial == 2
\* Number of times the clock advances in one behaviour.
MaxAdvances == 2
\* Heap available to the String `input`, in characters.
StringCapacity == 3
\* Largest number of argument tokens of a generated line.
MaxArgs == 4
\* Largest char_limit the caller passes (0, no limit, is always included).
MaxCharLimit == 3
\* Number of lines parsed one after the other into one Message.
MaxParses == 2

(***************************************************************************)
(* Program constants.                                                      *)
(***************************************************************************)
LINE_TERMINATOR == "\n"
timeout_ms == 1000
\* Half of the width of unsigned long, and the base of a half.
HalfBits == 16
Half == 2 ^ HalfBits

(***************************************************************************)
(* unsigned long arithmetic (modulo 2^32) on <<hi, lo>>.                   *)
(***************************************************************************)
U32(hi, lo) == <<hi % Half, lo % Half>>

\* a + n, for a small natural n.
U32Add(a, n) ==
  LET lo == a[2] + n
  IN  U32(a[1] + (lo \div Half), lo)

\* Mutant: a - b is 0 when a is below b.
U32Sub_Saturating(a, b) ==
  LET lo     == a[2] - b[2]
      borrow == IF lo < 0 THEN 1 ELSE 0
  IN  IF a[1] - b[1] - borrow < 0
        THEN U32(0, 0)
        ELSE U32(a[1] - b[1] - borrow, lo + Half)

\* a - b, wrapping below zero.
U32Sub(a, b) ==
  LET lo     == a[2] - b[2]
      borrow == IF lo < 0 THEN 1 ELSE 0
  IN  U32(a[1] - b[1] - borrow + Half, lo + Half)

\* a > n, for a natural n below 2^31.
U32Gt(a, n) ==
  \/ a[1] > n \div Half
  \/ a[1] = n \div Half /\ a[2] > n % Half

(***************************************************************************)
(* State.                                                                  *)
(***************************************************************************)
VARIABLES
  serial,        \* Serial: bytes received and not yet read
  input,         \* the caller's String handed to readStringUntil
  timerRunning,  \* static bool timerRunning
  timerStart,    \* static unsigned long timerStart
  char_limit,    \* the char_limit argument the caller passes
  epoch,         \* value of millis() at the start of the behaviour
  clock,         \* milliseconds elapsed since then (unbounded, true time)
  pc,            \* position of the caller
  ret,           \* value returned by the last readStringUntil
  msg,           \* Message filled in by the last parseMessage
  line,          \* the String handed to the last parseMessage
  hist           \* history of the behaviour (see HistInit)

vars == <<serial, input, timerRunning, timerStart, char_limit, epoch, clock,
          pc, ret, msg, line, hist>>

\* millis(): the 32-bit millisecond counter.
millis == U32Add(epoch, clock)

(***************************************************************************)
(* readStringUntil (comms.cpp).  A reader state is a record                *)
(*   [serial, input, timerRunning, timerStart]                             *)
(* and a call yields such a record extended with the returned value.       *)
(***************************************************************************)
\* Mutant: input = c.
Concat_Assign(s, c) == <<c>>

\* input += c.  A String that cannot grow is left unchanged.
Concat(s, c) == IF Len(s) < StringCapacity THEN Append(s, c) ELSE s

\* Mutant: the byte is compared with a carriage return.
FoundTerminator_CarriageReturn(c, until_c) == c = "\r"

\* c == until_c
FoundTerminator(c, until_c) == c = until_c

\* Mutant: char_limit is ignored.
LimitReached_Ignored(in, limit) == FALSE

\* Mutant: the limit is taken as reached one byte early.
LimitReached_OneEarly(in, limit) == limit # 0 /\ Len(in) + 1 >= limit

\* Mutant: the length is compared with > instead of >=.
LimitReached_Strict(in, limit) == limit # 0 /\ Len(in) > limit

\* char_limit && (input.length() >= char_limit)
LimitReached(in, limit) == limit # 0 /\ Len(in) >= limit

\* Mutant: the test does not look at timerRunning.
TimedOut_Unarmed(running, start, now) == U32Gt(U32Sub(now, start), timeout_ms)

\* Mutant: the elapsed time is compared with >= instead of >.
TimedOut_AtBoundary(running, start, now) ==
  running /\ (U32Gt(U32Sub(now, start), timeout_ms)
               \/ U32Sub(now, start) = U32(0, timeout_ms))

\* timerRunning && ((millis() - timerStart) > timeout_ms)
TimedOut(running, start, now) == running /\ U32Gt(U32Sub(now, start), timeout_ms)

\* Mutant: the timer is started by the first byte of a line only.
RestartTimer_FirstByteOnly(st, now) ==
  IF timeout_ms > 0
    THEN [st EXCEPT !.timerRunning = TRUE,
                    !.timerStart = IF Len(st.input) = 1 THEN now ELSE @]
    ELSE st

\* The tail of an iteration that did not return: restart the timer.
RestartTimer(st, now) ==
  IF timeout_ms > 0
    THEN [st EXCEPT !.timerRunning = TRUE, !.timerStart = now]
    ELSE st

\* Mutant: the iteration does not stop the timer first.
LoopBody_KeepsTimer(st, until_c, limit, now) ==
  LET c  == Head(st.serial)
      s1 == [st EXCEPT !.serial = Tail(st.serial),
                       !.input = Concat(st.input, c)]
  IN  IF FoundTerminator(c, until_c)
        THEN [state |-> s1, returned |-> TRUE, ret |-> TRUE]
      ELSE IF LimitReached(s1.input, limit)
        THEN [state |-> s1, returned |-> TRUE, ret |-> TRUE]
      ELSE [state |-> RestartTimer(s1, now), returned |-> FALSE, ret |-> FALSE]

\* One iteration of the while loop, entered with a byte available.
\* returned: the iteration executed a return statement.
LoopBody(st, until_c, limit, now) ==
  LET c  == Head(st.serial)
      s1 == [st EXCEPT !.timerRunning = FALSE,
                       !.serial = Tail(st.serial),
                       !.input = Concat(st.input, c)]
  IN  IF FoundTerminator(c, until_c)
        THEN [state |-> s1, returned |-> TRUE, ret |-> TRUE]
      ELSE IF LimitReached(s1.input, limit)
        THEN [state |-> s1, returned |-> TRUE, ret |-> TRUE]
      ELSE [state |-> RestartTimer(s1, now), returned |-> FALSE, ret |-> FALSE]

\* Mutant: a call that finds no byte and no timeout restarts the timer.
AfterLoop_RestartsTimer(st, now) ==
  IF TimedOut(st.timerRunning, st.timerStart, now)
    THEN [state |-> [st EXCEPT !.timerRunning = FALSE], ret |-> TRUE]
    ELSE [state |-> [st EXCEPT !.timerRunning = TRUE, !.timerStart = now],
          ret |-> FALSE]

\* Mutant: a timeout does not stop the timer.
AfterLoop_KeepsTimer(st, now) ==
  IF TimedOut(st.timerRunning, st.timerStart, now)
    THEN [state |-> st, ret |-> TRUE]
    ELSE [state |-> st, ret |-> FALSE]

\* The statements after the loop, entered with no byte available.
AfterLoop(st, now) ==
  IF TimedOut(st.timerRunning, st.timerStart, now)
    THEN [state |-> [st EXCEPT !.timerRunning = FALSE], ret |-> TRUE]
    ELSE [state |-> st, ret |-> FALSE]

\* A whole call, with the bytes of st.serial available and none arriving
\* during it.
RECURSIVE readStringUntil(_, _, _, _)
readStringUntil(st, until_c, limit, now) ==
  IF st.serial # <<>>
    THEN LET b == LoopBody(st, until_c, limit, now)
         IN  IF b.returned
               THEN [state |-> b.state, ret |-> b.ret]
               ELSE readStringUntil(b.state, until_c, limit, now)
    ELSE AfterLoop(st, now)

(***************************************************************************)
(* Arduino String and C library operations used by the parser.  Indices   *)
(* of the C++ code count from 0, those of a sequence from 1.               *)
(***************************************************************************)
\* The character '\0'.
NUL == "\\0"

\* String::charAt: '\0' when the index is out of range (length() - 1 of an
\* empty String wraps to the largest unsigned value, which is out of range).
charAt(s, i) == IF i >= 0 /\ i < Len(s) THEN s[i + 1] ELSE NUL

\* String::indexOf(ch): index of the first ch, -1 when there is none.
indexOf(s, ch) ==
  IF \E i \in 1..Len(s) : s[i] = ch
    THEN (CHOOSE i \in 1..Len(s) : s[i] = ch /\ \A j \in 1..(i - 1) : s[j] # ch) - 1
    ELSE -1

\* An index as the unsigned int it is passed as: a value below zero wraps
\* to one beyond every length.
Unsigned(i) == IF i < 0 THEN (i + 2147483647) + 1 ELSE i

\* String::substring(left, right): the characters at indices left..right-1.
substring(s, left, right) ==
  LET a == Unsigned(left)
      b == Unsigned(right)
      l == IF a > b THEN b ELSE a
      r == IF a > b THEN a ELSE b
      e == IF r > Len(s) THEN Len(s) ELSE r
  IN  IF l >= Len(s) THEN <<>> ELSE SubSeq(s, l + 1, e)

UpperCase == <<"A", "B", "C", "D", "E", "F", "G", "H", "I", "J", "K", "L", "M", "N", "O", "P", "Q", "R", "S", "T", "U", "V", "W", "X", "Y", "Z">>
LowerCase == <<"a", "b", "c", "d", "e", "f", "g", "h", "i", "j", "k", "l", "m", "n", "o", "p", "q", "r", "s", "t", "u", "v", "w", "x", "y", "z">>

\* tolower
tolower(c) ==
  IF \E i \in 1..Len(UpperCase) : UpperCase[i] = c
    THEN LowerCase[CHOOSE i \in 1..Len(UpperCase) : UpperCase[i] = c]
    ELSE c

\* Mutant: a is compared with the beginning of b only.
equalsIgnoreCase_Prefix(a, b) ==
  /\ Len(a) <= Len(b)
  /\ \A i \in 1..Len(a) : tolower(a[i]) = tolower(b[i])

\* String::equalsIgnoreCase
equalsIgnoreCase(a, b) ==
  /\ Len(a) = Len(b)
  /\ \A i \in 1..Len(a) : tolower(a[i]) = tolower(b[i])

\* isspace
isspace(c) == c \in {" ", "\t", "\n", "\r"}

Digits == <<"0", "1", "2", "3", "4", "5", "6", "7", "8", "9">>
isdigit(c) == \E i \in 1..Len(Digits) : Digits[i] = c
DigitValue(c) == (CHOOSE i \in 1..Len(Digits) : Digits[i] = c) - 1

\* First position at or after i that holds no white space (Len(s) + 1 at
\* the end of s).
RECURSIVE SkipSpace(_, _)
SkipSpace(s, i) ==
  IF i <= Len(s) /\ isspace(s[i]) THEN SkipSpace(s, i + 1) ELSE i

\* Reads the decimal digits from position i on, acc being the value so far.
RECURSIVE ScanDigits(_, _, _)
ScanDigits(s, i, acc) ==
  IF i <= Len(s) /\ isdigit(s[i])
    THEN ScanDigits(s, i + 1, 10 * acc + DigitValue(s[i]))
    ELSE [val |-> acc, next |-> i]

\* The conversion %d of sscanf from position i: skips white space, then
\* takes an optional sign and the longest run of digits.
\*   status "ok": converted, "fail": matching failure, "eof": input ended.
ScanInt(s, i) ==
  LET j    == SkipSpace(s, i)
      sign == j <= Len(s) /\ s[j] \in {"+", "-"}
      k    == IF sign THEN j + 1 ELSE j
      d    == ScanDigits(s, k, 0)
  IN  IF j > Len(s) THEN [status |-> "eof", val |-> 0, next |-> j]
      ELSE IF d.next = k THEN [status |-> "fail", val |-> 0, next |-> j]
      ELSE [status |-> "ok",
            val |-> IF sign /\ s[j] = "-" THEN 0 - d.val ELSE d.val,
            next |-> d.next]

\* sscanf(s, "%d %d ... %d", ...) with k conversions, continued at position
\* i with the values vals already converted: the values converted, and the
\* returned count (EOF is -1, returned when the input ends before the
\* first conversion).
RECURSIVE sscanf(_, _, _, _)
sscanf(s, i, k, vals) ==
  IF Len(vals) = k THEN [n |-> k, vals |-> vals]
  ELSE LET r == ScanInt(s, i)
       IN  IF r.status = "ok" THEN sscanf(s, r.next, k, Append(vals, r.val))
           ELSE [n |-> IF r.status = "eof" /\ vals = <<>> THEN -1 ELSE Len(vals),
                 vals |-> vals]

(***************************************************************************)
(* Message parsing (comms.cpp).  A Message is a record                     *)
(*   [cmd, x, y, state, is_valid, error_msg].                              *)
(***************************************************************************)
NoTerminatorText == <<"N", "o", " ", "l", "i", "n", "e", " ", "t", "e", "r", "m", "i", "n", "a", "t", "o", "r", " ", "f", "o", "u", "n", "d">>
UnrecognizedText == <<"U", "n", "r", "e", "c", "o", "g", "n", "i", "z", "e", "d", " ", "c", "o", "m", "m", "a", "n", "d", ":", " ">>
DrawVerb == <<"d", "r", "a", "w">>
FillVerb == <<"f", "i", "l", "l">>
HelpVerb == <<"h", "e", "l", "p">>

messageInit ==
  [cmd |-> "draw", x |-> 0, y |-> 0, state |-> FALSE, is_valid |-> FALSE,
   error_msg |-> <<>>]

\* Mutant: only positive values count as true.
IntToBool_Positive(n) == n > 0

\* An int converted to bool.
IntToBool(n) == n # 0

parseDrawArgs(args, m) ==
  LET r == sscanf(args, 1, 3, <<>>)
  IN  IF r.n = 3
        THEN [m EXCEPT !.x = r.vals[1], !.y = r.vals[2],
                       !.state = IntToBool(r.vals[3])]
        ELSE [m EXCEPT !.is_valid = FALSE]

\* Mutant: a state that is already true stays true.
parseFillArgs_KeepsState(args, m) ==
  LET r == sscanf(args, 1, 1, <<>>)
  IN  IF r.n = 1
        THEN [m EXCEPT !.state = @ \/ IntToBool(r.vals[1])]
        ELSE [m EXCEPT !.is_valid = FALSE]

parseFillArgs(args, m) ==
  LET r == sscanf(args, 1, 1, <<>>)
  IN  IF r.n = 1
        THEN [m EXCEPT !.state = IntToBool(r.vals[1])]
        ELSE [m EXCEPT !.is_valid = FALSE]

\* Mutant: the comparison is inverted.
MissingTerminator_Inverted(in) == charAt(in, Len(in) - 1) = LINE_TERMINATOR

\* input.charAt(input.length() - 1) != LINE_TERMINATOR
MissingTerminator(in) == charAt(in, Len(in) - 1) # LINE_TERMINATOR

\* The verb and the argument text of a line that has its terminator.
SplitVerb(in) ==
  LET verbEnd == indexOf(in, " ")
  IN  IF verbEnd = -1
        THEN [verbStr |-> substring(in, 0, Len(in) - 1), argStr |-> <<>>]
        ELSE [verbStr |-> substring(in, 0, verbEnd),
              argStr  |-> substring(in, verbEnd + 1, Len(in))]

parseMessage(in, m) ==
  IF MissingTerminator(in)
    THEN [m EXCEPT !.is_valid = FALSE, !.error_msg = NoTerminatorText]
  ELSE LET sp == SplitVerb(in)
           m1 == [m EXCEPT !.is_valid = TRUE]
       IN  IF equalsIgnoreCase(sp.verbStr, DrawVerb)
             THEN parseDrawArgs(sp.argStr, [m1 EXCEPT !.cmd = "draw"])
           ELSE IF equalsIgnoreCase(sp.verbStr, FillVerb)
             THEN parseFillArgs(sp.argStr, [m1 EXCEPT !.cmd = "fill"])
           ELSE IF equalsIgnoreCase(sp.verbStr, HelpVerb)
             THEN [m1 EXCEPT !.cmd = "help"]
           ELSE [m1 EXCEPT !.is_valid = FALSE,
                           !.error_msg = UnrecognizedText \o in]

(***************************************************************************)
(* The environment and the caller.                                         *)
(***************************************************************************)
\* Bytes the transport delivers.
Bytes == {LINE_TERMINATOR, "a"}
\* Values of char_limit.
CharLimits == 0..MaxCharLimit
\* Steps of the clock, in milliseconds.
TimeSteps == {1, timeout_ms}
\* Values of millis() at the start: 0, and timeout_ms before it wraps.
StartTimes == {U32(0, 0), U32(Half - 1, Half - timeout_ms)}

\* History of a behaviour, kept for stating properties only:
\*   arrived   every byte the transport delivered, in order
\*   consumed  every byte read from Serial, in order
\*   emitted   the lines handed to the parser, in order
\*   advances  number of clock steps
\*   avail     number of bytes available when the last call began
\*   reads     number of bytes the last call read
\*   firstAt   clock when the first byte of the current line was appended
\*   lastAt    clock when the last byte of the current line was appended
\*             (-1 while the line has no byte)
\*   fresh     no byte has been appended since the last call that returned
\*             true (or since the start)
HistInit ==
  [arrived |-> <<>>, consumed |-> <<>>, emitted |-> <<>>, advances |-> 0,
   avail |-> 0, reads |-> 0, firstAt |-> -1, lastAt |-> -1, fresh |-> TRUE]

Init ==
  /\ serial = <<>>
  /\ input = <<>>
  /\ timerRunning = FALSE
  /\ timerStart = U32(0, 0)
  /\ char_limit \in CharLimits
  /\ epoch \in StartTimes
  /\ clock = 0
  /\ pc = "poll"
  /\ ret = FALSE
  /\ msg = messageInit
  /\ line = <<>>
  /\ hist = HistInit

\* The transport receives byte b.
Arrive(b) ==
  /\ Len(hist.arrived) < MaxBytes
  /\ Len(serial) < MaxSerial
  /\ serial' = Append(serial, b)
  /\ hist' = [hist EXCEPT !.arrived = Append(@, b)]
  /\ UNCHANGED <<input, timerRunning, timerStart, char_limit, epoch, clock,
                 pc, ret, msg, line>>

\* d milliseconds pass.
Advance(d) ==
  /\ hist.advances < MaxAdvances
  /\ clock' = clock + d
  /\ hist' = [hist EXCEPT !.advances = @ + 1]
  /\ UNCHANGED <<serial, input, timerRunning, timerStart, char_limit, epoch,
                 pc, ret, msg, line>>

\* The reader state of the current state.
Reader ==
  [serial |-> serial, input |-> input, timerRunning |-> timerRunning,
   timerStart |-> timerStart]

\* The caller's loop calls readStringUntil(input, LINE_TERMINATOR, char_limit).
Poll ==
  /\ pc = "poll"
  /\ \E r \in {readStringUntil(Reader, LINE_TERMINATOR, char_limit, millis)} :
     LET n == Len(serial) - Len(r.state.serial)
     IN  /\ serial' = r.state.serial
         /\ input' = r.state.input
         /\ timerRunning' = r.state.timerRunning
         /\ timerStart' = r.state.timerStart
         /\ ret' = r.ret
         /\ pc' = IF r.ret THEN "ready" ELSE "poll"
         /\ hist' = [hist EXCEPT
              !.consumed = @ \o SubSeq(serial, 1, n),
              !.avail = Len(serial),
              !.reads = n,
              !.firstAt = IF n > 0 /\ input = <<>> THEN clock ELSE @,
              !.lastAt = IF n > 0 THEN clock ELSE @,
              !.fresh = IF r.ret THEN TRUE ELSE IF n > 0 THEN FALSE ELSE @]
  /\ UNCHANGED <<char_limit, epoch, clock, msg, line>>

\* On a true return the caller parses the line into a fresh Message and
\* empties the String.
\* Mutant: the String is not emptied.
HandleLine_KeepsInput ==
  /\ pc = "ready"
  /\ line' = input
  /\ msg' = parseMessage(input, messageInit)
  /\ pc' = "poll"
  /\ UNCHANGED <<serial, input, timerRunning, timerStart, char_limit, epoch,
                 clock, ret>>

HandleLine ==
  /\ pc = "ready"
  /\ line' = input
  /\ msg' = parseMessage(input, messageInit)
  /\ input' = <<>>
  /\ pc' = "poll"
  /\ UNCHANGED <<serial, timerRunning, timerStart, char_limit, epoch, clock, ret>>

Handle ==
  /\ HandleLine
  /\ hist' = [hist EXCEPT !.emitted = Append(@, input),
                          !.firstAt = -1, !.lastAt = -1]

Next ==
  \/ \E b \in Bytes : Arrive(b)
  \/ \E d \in TimeSteps : Advance(d)
  \/ Poll
  \/ Handle

Spec == Init /\ [][Next]_vars

\* The same behaviours, with the caller's loop running for ever.
FairSpec == Spec /\ WF_vars(Poll) /\ WF_vars(Handle)

(***************************************************************************)
(* readStringUntil statement by statement: bytes arrive while a call is   *)
(* in progress.  pc = "loop" is the test of the while condition.  The      *)
(* history is not recorded.                                                *)
(***************************************************************************)
BeginCall ==
  /\ pc = "poll"
  /\ pc' = "loop"
  /\ UNCHANGED <<serial, input, timerRunning, timerStart, char_limit, epoch,
                 clock, ret, msg, line, hist>>

\* Serial.available() is true: one iteration of the loop.
Iterate ==
  /\ pc = "loop"
  /\ serial # <<>>
  /\ LET b == LoopBody(Reader, LINE_TERMINATOR, char_limit, millis)
     IN  /\ serial' = b.state.serial
         /\ input' = b.state.input
         /\ timerRunning' = b.state.timerRunning
         /\ timerStart' = b.state.timerStart
         /\ ret' = IF b.returned THEN b.ret ELSE ret
         /\ pc' = IF b.returned THEN "ready" ELSE "loop"
  /\ UNCHANGED <<char_limit, epoch, clock, msg, line, hist>>

\* Serial.available() is false: the statements after the loop.
Leave ==
  /\ pc = "loop"
  /\ serial = <<>>
  /\ LET a == AfterLoop(Reader, millis)
     IN  /\ timerRunning' = a.state.timerRunning
         /\ ret' = a.ret
         /\ pc' = IF a.ret THEN "ready" ELSE "poll"
  /\ UNCHANGED <<serial, input, timerStart, char_limit, epoch, clock, msg,
                 line, hist>>

\* The transport receives byte b, at any time and without end.
Receive(b) ==
  /\ Len(serial) < MaxSerial
  /\ serial' = Append(serial, b)
  /\ UNCHANGED <<input, timerRunning, timerStart, char_limit, epoch, clock,
                 pc, ret, msg, line, hist>>

HandleOnly ==
  /\ HandleLine
  /\ UNCHANGED hist

LoopNext ==
  \/ BeginCall
  \/ Iterate
  \/ Leave
  \/ \E b \in Bytes : Receive(b)
  \/ \E d \in TimeSteps : Advance(d)
  \/ HandleOnly

\* The processor keeps executing the statements of the program.
LoopSpec ==
  /\ Init
  /\ [][LoopNext]_vars
  /\ WF_vars(BeginCall) /\ WF_vars(Iterate) /\ WF_vars(Leave) /\ WF_vars(HandleOnly)

(***************************************************************************)
(* parseMessage as a function of its line: every generated line is handed *)
(* to the parser once.                                                     *)
(***************************************************************************)
Verbs ==
  { DrawVerb, <<"D", "r", "A", "w">>, FillVerb, <<"F", "I", "L", "L">>,
    HelpVerb, <<"H", "e", "l", "p">>, <<"b", "l", "i", "n", "k">>,
    <<"d", "r", "a">>, <<>> }

ArgTokens == { <<"3">>, <<"-", "4">>, <<"0">>, <<"1", "x">>, <<"x">>, <<>> }

\* The tokens of a list, each preceded by one space.
RECURSIVE JoinArgs(_)
JoinArgs(toks) ==
  IF toks = <<>> THEN <<>> ELSE <<" ">> \o Head(toks) \o JoinArgs(Tail(toks))

ArgLists == UNION { [1..n -> ArgTokens] : n \in 0..MaxArgs }

Lines ==
  { v \o JoinArgs(a) \o t :
      v \in Verbs, a \in ArgLists, t \in {<<LINE_TERMINATOR>>, <<>>} }

ParseInit ==
  /\ serial = <<>>
  /\ input \in Lines
  /\ timerRunning = FALSE
  /\ timerStart = U32(0, 0)
  /\ char_limit = 0
  /\ epoch = U32(0, 0)
  /\ clock = 0
  /\ pc = "ready"
  /\ ret = TRUE
  /\ msg = messageInit
  /\ line = <<>>
  /\ hist = HistInit

ParseSpec == ParseInit /\ [][Handle]_vars

(***************************************************************************)
(* parseMessage called on one line after the other.  The Message handed   *)
(* to a call is either initialised by messageInit or the one the earlier  *)
(* calls have written.                                                     *)
(***************************************************************************)
ReuseArgs ==
  { <<>>, <<<<"3">>>>, <<<<"0">>>>, <<<<"x">>>>,
    <<<<"3">>, <<"-", "4">>, <<"0">>>>,
    <<<<"0">>, <<"3">>, <<"3">>>> }

ReuseLines ==
  { v \o JoinArgs(a) \o <<LINE_TERMINATOR>> :
      v \in {DrawVerb, FillVerb, HelpVerb, <<"b", "l", "i", "n", "k">>},
      a \in ReuseArgs }
  \cup { DrawVerb \o <<" ", "3", " ", "-", "4", " ", "0">> }

ReuseInit ==
  /\ serial = <<>>
  /\ input \in ReuseLines
  /\ timerRunning = FALSE
  /\ timerStart = U32(0, 0)
  /\ char_limit = 0
  /\ epoch = U32(0, 0)
  /\ clock = 0
  /\ pc = "ready"
  /\ ret = TRUE
  /\ msg = messageInit
  /\ line = <<>>
  /\ hist = HistInit

\* The line is parsed into Message m and the String is emptied.
ParseInto(m) ==
  /\ pc = "ready"
  /\ line' = input
  /\ msg' = parseMessage(input, m)
  /\ input' = <<>>
  /\ pc' = "poll"
  /\ hist' = [hist EXCEPT !.emitted = Append(@, input)]
  /\ UNCHANGED <<serial, timerRunning, timerStart, char_limit, epoch, clock, ret>>

\* The caller parses into a Message it has initialised.
ParseFresh == ParseInto(messageInit)

\* The caller parses into the Message of the line before.
ParseReused == ParseInto(msg)

\* The reader returns the next line.
NextLine(l) ==
  /\ pc = "poll"
  /\ Len(hist.emitted) < MaxParses
  /\ input' = l
  /\ pc' = "ready"
  /\ UNCHANGED <<serial, timerRunning, timerStart, char_limit, epoch, clock,
                 ret, msg, line, hist>>

ReuseNext ==
  \/ ParseFresh
  \/ ParseReused
  \/ \E l \in ReuseLines : NextLine(l)

ReuseSpec == ReuseInit /\ [][ReuseNext]_vars

(***************************************************************************)
(* Vocabulary of the claims.                                               *)
(***************************************************************************)
EndsInTerminator(s) == s # <<>> /\ s[Len(s)] = LINE_TERMINATOR
HasTerminator(s) == \E i \in 1..Len(s) : s[i] = LINE_TERMINATOR

\* The lines of a sequence of lines, one after the other.
RECURSIVE Flatten(_)
Flatten(ls) == IF ls = <<>> THEN <<>> ELSE Head(ls) \o Flatten(Tail(ls))

\* Number of bytes a step reads from Serial.
BytesRead == Len(serial) - Len(serial')

\* Time since the last (the first) byte of the current line was appended.
SinceLastByte == clock - hist.lastAt
SinceFirstByte == clock - hist.firstAt

\* The error kinds a Message stands for.
IsMissingTerminator(m) == ~m.is_valid /\ m.error_msg = NoTerminatorText
IsUnrecognizedVerb(m) ==
  /\ ~m.is_valid
  /\ Len(m.error_msg) >= Len(UnrecognizedText)
  /\ SubSeq(m.error_msg, 1, Len(UnrecognizedText)) = UnrecognizedText
IsMalformedArguments(m) ==
  ~m.is_valid /\ ~IsMissingTerminator(m) /\ ~IsUnrecognizedVerb(m)

(***************************************************************************)
(* Claims about the reader.                                                *)
(***************************************************************************)
\* C1: whenever a call appends a byte equal to the terminator, that call
\* returns true with the terminator as the last character of the buffer,
\* and it reads no byte after the terminator from the transport, even when
\* more are available.
C1_TerminatorReturnsAtOnce ==
  [][ (Poll /\ \E i \in 1..BytesRead : serial[i] = LINE_TERMINATOR)
        => /\ ret'
           /\ EndsInTerminator(input')
           /\ \A i \in 1..(BytesRead - 1) : serial[i] # LINE_TERMINATOR
           /\ input' = input \o SubSeq(serial, 1, BytesRead)
           /\ serial' = SubSeq(serial, BytesRead + 1, Len(serial)) ]_vars

\* C1 witness: a call returned true on a terminator and left bytes that
\* were available unread.
C1_Witness ==
  /\ pc = "ready" /\ ret
  /\ EndsInTerminator(input)
  /\ hist.reads > 0 /\ hist.reads < hist.avail
  /\ Len(serial) >= hist.avail - hist.reads

\* C2: with char_limit = N > 0, the call that brings the buffer to N bytes
\* none of which is the terminator returns true with a buffer of exactly N
\* bytes that does not end in the terminator, and parsing that buffer
\* yields an invalid message with the missing-terminator error.
C2_LimitReturnsAndParseFails ==
  [][ /\ (Poll /\ char_limit > 0 /\ BytesRead > 0
               /\ Len(input') >= char_limit /\ ~HasTerminator(input'))
          => (ret' /\ Len(input') = char_limit /\ ~EndsInTerminator(input'))
      /\ (Handle /\ char_limit > 0 /\ Len(input) = char_limit
                 /\ ~HasTerminator(input))
          => (line' = input /\ IsMissingTerminator(msg')) ]_vars

\* C2 witness: a line of char_limit > 1 bytes without terminator was
\* emitted and parsed.
C2_Witness ==
  /\ pc = "poll" /\ hist.emitted # <<>>
  /\ char_limit > 1 /\ Len(line) = char_limit /\ ~HasTerminator(line)
  /\ IsMissingTerminator(msg)

\* A line is in progress and stalled: the caller is about to poll, the
\* buffer holds bytes of an uncompleted line and no byte is available.
Stalled == pc = "poll" /\ input # <<>> /\ serial = <<>>

C4_TimeoutFromFirstByte ==
  [][ (Poll /\ Stalled /\ SinceFirstByte > timeout_ms) => ret' ]_vars

\* C4 (amended): the timeout runs from the last byte appended to the line:
\* a poll of a stalled line returns true exactly when more than timeout_ms
\* have passed since the last byte of the line was appended, however long
\* ago the first byte was appended.
C4_TimeoutFromLastByte ==
  [][ (Poll /\ Stalled) => (ret' = (SinceLastByte > timeout_ms)) ]_vars

\* C4 witness: a line of two bytes appended at different times was polled
\* more than timeout_ms after its first byte and not after its last, and
\* the poll returned false.
C4_Witness ==
  /\ pc = "poll" /\ ~ret /\ hist.reads = 0 /\ Len(input) >= 2
  /\ hist.firstAt < hist.lastAt
  /\ SinceFirstByte > timeout_ms /\ SinceLastByte <= timeout_ms

\* C5: the emitted lines, in order, followed by the current buffer are
\* exactly the bytes read from the transport, which with the bytes still
\* waiting are exactly the bytes that arrived; and no emitted line holds a
\* byte after a completing byte (a terminator, or the char_limit-th byte).
C5_BytesKeepOrder ==
  /\ Flatten(hist.emitted) \o input = hist.consumed
  /\ hist.consumed \o serial = hist.arrived
  /\ \A k \in 1..(Len(hist.emitted) + 1) :
       LET l == IF k <= Len(hist.emitted) THEN hist.emitted[k] ELSE input
       IN  \A i \in 1..(Len(l) - 1) :
             l[i] # LINE_TERMINATOR /\ (char_limit = 0 \/ i < char_limit)

\* C5 witness: two lines were emitted, the second one by a call that left
\* an available byte unread, and that byte is now in the buffer.
C5_Witness ==
  /\ Len(hist.emitted) >= 2 /\ input # <<>>
  /\ Len(hist.consumed) = Len(hist.arrived)
  /\ \E k \in 1..Len(hist.emitted) : EndsInTerminator(hist.emitted[k])
  /\ \E k \in 1..Len(hist.emitted) : ~HasTerminator(hist.emitted[k])

\* C6: every call of readStringUntil terminates, whatever the transport
\* does and for every char_limit, 0 included: a call that has begun (the
\* program is at the loop test) eventually returns.
C6_CallTerminates == (pc = "loop") ~> (pc # "loop")

Parsed == pc = "poll" /\ line # <<>>

\* The line without its terminator.
RefBody == SubSeq(line, 1, Len(line) - 1)

\* Number of characters of s before its first space.
RECURSIVE RefVerbLen(_)
RefVerbLen(s) ==
  IF s = <<>> \/ Head(s) = " " THEN 0 ELSE 1 + RefVerbLen(Tail(s))

\* The verb in lower case, and the text after the space that follows it.
RefVerb == [i \in 1..RefVerbLen(RefBody) |-> tolower(RefBody[i])]
RefRest == SubSeq(RefBody, RefVerbLen(RefBody) + 2, Len(RefBody))

\* The tokens of s: its maximal runs of characters other than spaces,
\* cur being the token in progress.
RECURSIVE RefTokens(_, _)
RefTokens(s, cur) ==
  IF s = <<>> THEN (IF cur = <<>> THEN <<>> ELSE <<cur>>)
  ELSE IF Head(s) = " "
    THEN (IF cur = <<>> THEN <<>> ELSE <<cur>>) \o RefTokens(Tail(s), <<>>)
  ELSE RefTokens(Tail(s), Append(cur, Head(s)))

RefArgs == RefTokens(RefRest, <<>>)

RefDigits == {"0", "1", "2", "3", "4", "5", "6", "7", "8", "9"}
RefUnsigned(t) == IF t # <<>> /\ t[1] \in {"+", "-"} THEN Tail(t) ELSE t

\* A token is an integer: an optional sign and one or more digits.
RefIsInt(t) ==
  /\ RefUnsigned(t) # <<>>
  /\ \A i \in 1..Len(RefUnsigned(t)) : RefUnsigned(t)[i] \in RefDigits

RECURSIVE RefNat(_)
RefNat(d) ==
  IF d = <<>> THEN 0
  ELSE 10 * RefNat(SubSeq(d, 1, Len(d) - 1)) + DigitValue(d[Len(d)])

RefInt(t) == IF t[1] = "-" THEN 0 - RefNat(RefUnsigned(t)) ELSE RefNat(RefUnsigned(t))

\* The first k tokens exist and are integers.
RefHasInts(k) == Len(RefArgs) >= k /\ \A i \in 1..k : RefIsInt(RefArgs[i])

\* C8: a line whose last character is not the terminator yields an
\* invalid message with the missing-terminator error and nothing else of
\* the message is touched (no verb, no argument is parsed), also when the
\* text is a well-formed command.
C8_NoTerminatorNoParse ==
  (Parsed /\ ~EndsInTerminator(line))
    => msg = [messageInit EXCEPT !.is_valid = FALSE,
                                 !.error_msg = NoTerminatorText]

\* C8 witness: the well-formed command "draw 3 -4 3" without terminator
\* was parsed.
C8_Witness ==
  /\ Parsed
  /\ line = DrawVerb \o <<" ", "3", " ", "-", "4", " ", "3">>
  /\ IsMissingTerminator(msg)

C10_BadArgumentsAreMalformed ==
  (Parsed /\ EndsInTerminator(line))
    => /\ (RefVerb = DrawVerb /\ ~RefHasInts(3)) => IsMalformedArguments(msg)
       /\ (RefVerb = FillVerb /\ ~RefHasInts(1)) => IsMalformedArguments(msg)

\* Every token of the argument text is an integer.
RefAllInts == \A i \in 1..Len(RefArgs) : RefIsInt(RefArgs[i])

\* C11: argument count matching is strict: a terminator-ended draw line
\* with more than three integer tokens, or fill line with more than one,
\* is not accepted as a valid command; it stands for malformed arguments.
C11_ExtraIntegersAreMalformed ==
  (Parsed /\ EndsInTerminator(line) /\ RefAllInts)
    => /\ (RefVerb = DrawVerb /\ Len(RefArgs) > 3) => IsMalformedArguments(msg)
       /\ (RefVerb = FillVerb /\ Len(RefArgs) > 1) => IsMalformedArguments(msg)

\* C12: a terminator-ended line whose verb is not draw, fill or help in
\* any letter case (the empty verb of a line that is only the terminator or
\* that starts with a space included) yields an invalid message whose error
\* text is the unrecognized-command text followed by the complete line, its
\* terminator included.
C12_UnknownVerbCarriesLine ==
  (Parsed /\ EndsInTerminator(line)
          /\ RefVerb \notin {DrawVerb, FillVerb, HelpVerb})
    => /\ ~msg.is_valid
       /\ msg.error_msg = UnrecognizedText \o line

\* C12 witness: the line " 3" with its terminator, whose verb is empty, was
\* parsed and the error text ends with the whole line.
C12_Witness ==
  /\ Parsed
  /\ line = <<" ", "3", LINE_TERMINATOR>>
  /\ IsUnrecognizedVerb(msg)
  /\ SubSeq(msg.error_msg, Len(UnrecognizedText) + 1, Len(msg.error_msg)) = line

(***************************************************************************)
(* Further claims about the reader.                                        *)
(***************************************************************************)
\* C13: a poll that finds no byte available and whose timeout has not
\* elapsed (no timer armed, or at most timeout_ms since the last byte)
\* returns false and leaves timerRunning, timerStart and the buffer as they
\* are; with an empty buffer and no armed timer it does not arm the timer.
C13_EmptyPollChangesNothing ==
  [][ (Poll /\ serial = <<>>)
        => /\ ~(timerRunning /\ SinceLastByte > timeout_ms)
                => /\ ~ret'
                   /\ timerRunning' = timerRunning
                   /\ timerStart' = timerStart
                   /\ input' = input
           /\ (input = <<>> /\ ~timerRunning) => ~timerRunning' ]_vars

\* C13 witness: a poll of a partial line with its timer armed found no
\* byte, returned false and left the timer armed at the time of the last
\* byte, which was not the start of the behaviour.
C13_Witness ==
  /\ pc = "poll" /\ ~ret /\ hist.reads = 0 /\ hist.avail = 0
  /\ input # <<>> /\ timerRunning
  /\ hist.lastAt > 0 /\ timerStart = U32Add(epoch, hist.lastAt)

\* The completion conditions, evaluated in the state a true return leaves.
ByTerminator == EndsInTerminator(input)
ByLimit == char_limit > 0 /\ Len(input) >= char_limit
ByTimeout == hist.lastAt >= 0 /\ SinceLastByte > timeout_ms

\* Number of completion conditions that hold.
Completions ==
  (IF ByTerminator THEN 1 ELSE 0) + (IF ByLimit THEN 1 ELSE 0)
    + (IF ByTimeout THEN 1 ELSE 0)

\* C14 (as claimed): at every true return exactly one of the three
\* completion conditions holds (the buffer ends in the terminator, its
\* length has reached char_limit > 0, the timeout has elapsed), never two.
C14_ExactlyOneCompletion == [][ (Poll /\ ret') => Completions' = 1 ]_vars

\* C14 (amended): at every true return at least one of the three
\* completion conditions holds; the timeout holds with neither of the two
\* others; and the terminator and the length cap hold together exactly
\* when the terminator is the char_limit-th byte of the line.
C14_CompletionsOverlapAtLimit ==
  [][ (Poll /\ ret')
        => /\ Completions' >= 1
           /\ ByTimeout' => (~ByTerminator' /\ ~ByLimit')
           /\ ByLimit' => Len(input') = char_limit
           /\ (ByTerminator' /\ ByLimit')
                <=> (char_limit > 0 /\ Len(input') = char_limit
                       /\ input'[char_limit] = LINE_TERMINATOR) ]_vars

\* C14 witness: a line of char_limit > 1 bytes whose last byte is the
\* terminator was returned: the terminator and the length cap both hold.
C14_Witness ==
  /\ pc = "ready" /\ ret
  /\ char_limit > 1 /\ Len(input) = char_limit
  /\ ByTerminator /\ ByLimit /\ ~ByTimeout

\* C15: every true return leaves the timer stopped, whichever condition
\* caused it; hence after a true return (a timeout included) every poll that
\* finds no byte, until the next byte is read, returns false: one stalled
\* line is emitted once.
C15_ReturnStopsTimer ==
  [][ Poll => /\ ret' => ~timerRunning'
              /\ (serial = <<>> /\ hist.fresh) => ~ret' ]_vars

\* C15 witness: a stalled partial line was emitted by the timeout and a
\* later poll that found no byte returned false.
C15_Witness ==
  /\ pc = "poll" /\ ~ret /\ hist.fresh /\ hist.reads = 0
  /\ input = <<>> /\ ~timerRunning
  /\ Len(hist.emitted) = 1
  /\ ~HasTerminator(hist.emitted[1])
  /\ (char_limit = 0 \/ Len(hist.emitted[1]) < char_limit)

\* C16: between polls, when the timer is running the buffer is not empty,
\* its last byte is not the terminator and, when char_limit > 0, it is
\* shorter than char_limit; so no timer runs while the buffer is empty and
\* no emitted line is empty.
C16_TimerOnlyOnPartialLine ==
  /\ timerRunning
       => /\ input # <<>>
          /\ ~EndsInTerminator(input)
          /\ char_limit > 0 => Len(input) < char_limit
  /\ (pc = "ready") => input # <<>>
  /\ \A k \in 1..Len(hist.emitted) : hist.emitted[k] # <<>>

\* C16 witness: after a first line was emitted, the timer runs on a second
\* line that is one byte short of char_limit.
C16_Witness ==
  /\ pc = "poll" /\ timerRunning /\ hist.emitted # <<>>
  /\ char_limit > 1 /\ Len(input) = char_limit - 1
  /\ ~HasTerminator(input)

\* C18: with char_limit > 0 and the buffer emptied after every true
\* return, the buffer is never longer than char_limit, however many bytes
\* are available to one call.
C18_BufferWithinLimit == char_limit > 0 => Len(input) <= char_limit

\* C18 witness: a call that found more bytes available than the line had
\* room for stopped reading at char_limit bytes and left the rest.
C18_Witness ==
  /\ pc = "ready" /\ ret
  /\ char_limit > 0 /\ Len(input) = char_limit /\ ~HasTerminator(input)
  /\ hist.reads > 0 /\ hist.avail > hist.reads
  /\ Len(serial) >= hist.avail - hist.reads

\* Position in Serial of the byte that brings the buffer to char_limit.
LimitByte == char_limit - Len(input)

\* C19: when the byte that brings the buffer to exactly char_limit bytes is
\* the terminator, the call returns true with a buffer that ends in the
\* terminator, and parsing that buffer does not report a missing
\* terminator: the line is decoded by its verb (here the unrecognized verb
\* before the terminator, reported with the whole line).
C19_TerminatorAtLimit ==
  [][ /\ (Poll /\ char_limit > 0
               /\ LimitByte \in 1..Len(serial)
               /\ serial[LimitByte] = LINE_TERMINATOR
               /\ \A i \in 1..(LimitByte - 1) : serial[i] # LINE_TERMINATOR)
          => /\ ret'
             /\ input' = input \o SubSeq(serial, 1, LimitByte)
             /\ Len(input') = char_limit /\ EndsInTerminator(input')
      /\ (Handle /\ char_limit > 0 /\ Len(input) = char_limit
                 /\ EndsInTerminator(input))
          => /\ line' = input
             /\ ~IsMissingTerminator(msg')
             /\ IsUnrecognizedVerb(msg')
             /\ msg'.error_msg = UnrecognizedText \o input ]_vars

\* C19 witness: a line of char_limit > 1 bytes whose last byte is the
\* terminator was emitted and parsed by its verb.
C19_Witness ==
  /\ pc = "poll" /\ hist.emitted = <<line>>
  /\ char_limit > 1 /\ Len(line) = char_limit /\ EndsInTerminator(line)
  /\ IsUnrecognizedVerb(msg) /\ ~IsMissingTerminator(msg)

\* The counter has wrapped since the timer was started: millis() is below
\* timerStart.
Wrapped ==
  \/ millis[1] < timerStart[1]
  \/ millis[1] = timerStart[1] /\ millis[2] < timerStart[2]

\* C20: when millis() has wrapped around between the start of the timer
\* and a poll that finds no byte, millis() - timerStart is the time that
\* has really passed since the timer was started, so the poll returns true
\* exactly when more than timeout_ms have passed: neither early nor never.
C20_ElapsedTimeAcrossWrap ==
  [][ (Poll /\ serial = <<>> /\ timerRunning /\ Wrapped)
        => /\ U32Sub(millis, timerStart) = U32(0, SinceLastByte)
           /\ ret' = (SinceLastByte > timeout_ms) ]_vars

\* C20 witness: a timer started timeout_ms before the counter wraps has
\* fired one millisecond after the wrap, timeout_ms + 1 after its start.
C20_Witness ==
  /\ pc = "ready" /\ ret /\ hist.reads = 0
  /\ timerStart = U32(Half - 1, Half - timeout_ms)
  /\ millis = U32(0, 1)
  /\ SinceLastByte = timeout_ms + 1

(***************************************************************************)
(* Further claims about the parser.                                        *)
(***************************************************************************)
\* The Command a valid Message stands for: the verb and its payload.
Command(m) ==
  IF m.cmd = "draw" THEN <<"draw", m.x, m.y, m.state>>
  ELSE IF m.cmd = "fill" THEN <<"fill", m.state>>
  ELSE <<"help">>

\* The line is a valid command, and the Command it stands for.
RefValid ==
  /\ EndsInTerminator(line)
  /\ \/ RefVerb = DrawVerb /\ Len(RefArgs) = 3 /\ RefHasInts(3)
     \/ RefVerb = FillVerb /\ Len(RefArgs) = 1 /\ RefHasInts(1)
     \/ RefVerb = HelpVerb
RefCommand ==
  IF RefVerb = DrawVerb
    THEN <<"draw", RefInt(RefArgs[1]), RefInt(RefArgs[2]), RefInt(RefArgs[3]) # 0>>
  ELSE IF RefVerb = FillVerb THEN <<"fill", RefInt(RefArgs[1]) # 0>>
  ELSE <<"help">>

\* C17: the outcome of parsing a valid line is a function of the line
\* alone: whatever lines, valid or erroneous, were parsed before it and
\* whether or not the Message still holds what they left, the Message is
\* valid and its Command is the one the line stands for; so parsing the
\* same valid line twice yields the same Command.
C17_ValidOutcomeFromLineAlone ==
  (Parsed /\ RefValid) => (msg.is_valid /\ Command(msg) = RefCommand)

\* C17 witness: "fill 3" was parsed into the Message that the erroneous
\* line "blink 3" and its error text had been written to, and gives a
\* valid fill with state true.
C17_Witness ==
  /\ Parsed
  /\ Len(hist.emitted) = 2
  /\ hist.emitted[1] = <<"b", "l", "i", "n", "k", " ", "3", LINE_TERMINATOR>>
  /\ line = FillVerb \o <<" ", "3", LINE_TERMINATOR>>
  /\ msg.is_valid /\ Command(msg) = <<"fill", TRUE>>
  /\ msg.error_msg = UnrecognizedText \o hist.emitted[1]

====
